---- MODULE Spec2Model ----
(***************************************************************************)
(* A model of codex-darcula-theme.js: the asar container codec             *)
(* (parseAsar, extractFileMap, buildAsar), the textual patch               *)
(* (patchBundleSource), the Info.plist hash synchronisation, the backup    *)
(* step and the three commands status, patch and restore acting on the     *)
(* files of one application bundle.                                        *)
(*                                                                         *)
(* Representation.                                                         *)
(*  - A byte buffer is a sequence of cells; a cell is a string.  The cells *)
(*    "A", "P", "Q", "C", "K1", "M", "K2" stand for the literal fragments  *)
(*    the patch searches for or inserts (see the Patch Engine section);    *)
(*    the other cells are single bytes.  Lengths are counted in cells.     *)
(*  - sha256 is modelled as a collision-free digest: the pair              *)
(*    <<"sha256", buffer>>.                                                *)
(*  - A JavaScript object is the sequence of its own enumerable            *)
(*    properties <<name, value>> in Object.entries order.  A header node   *)
(*    is a record; hasFiles says that node.files is present (truthy).      *)
(*  - An asar buffer is a record: kind tells which of the prelude checks   *)
(*    it passes, header is the object JSON.parse returns for its header    *)
(*    region, data is the data region that follows the header.             *)
(*  - A file on disk that may be absent is a sequence of length 0 or 1.    *)
(*                                                                         *)
(* Left out: property names that are array indices (Object.entries lists   *)
(* them first), negative and fractional offsets, and the decimal strings   *)
(* String(runningOffset) and Number(entry.offset) pass through: an offset  *)
(* is the number itself.                                                   *)
(***************************************************************************)
EXTENDS Integers, Sequences, FiniteSets, TLC

VARIABLES
    asar,         \* bytes at paths.asarPath (the live container)
    plist,        \* Info.plist: <<>> when the ElectronAsarIntegrity hash key is missing, else <<hash>>
    backup,       \* paths.backupPath: <<>> or <<container>>
    plistBackup,  \* paths.infoPlistBackupPath: <<>> or <<plist>>
    temp,         \* paths.tempPath: <<>> or <<container>>
    meta,         \* paths.metaPath: <<>> or <<payload>>
    signature,    \* code signature of the bundle: "vendor" or "adhoc"
    asar0,        \* history: the live container when the tool was first pointed at the bundle
    plist0,       \* history: the live manifest at that time
    last,         \* history: the last invocation, its outcome and the files before it
    halfPatched,  \* history: a patch replaced the live container and threw before the
                  \* manifest hash was written, and neither file has changed since
    plan,         \* step view: the file-system calls the running invocation has still to make
    run,          \* step view: the running invocation, the files before it and after it
    torn,         \* step view: the paths that are open for writing, their content partly written
    seen,         \* step view: what a concurrent reader last found at a live path
    pages,        \* injector: ids of the page targets the CDP endpoint lists
    styled,       \* injector: the listed pages whose document holds the element STYLE_ID
    issued,       \* injector: the target ids the application has given out so far
    processedTargets, \* injector: the Set main() hands to every injectToTargets call
    loop,         \* injector: position of main()'s watch loop: "poll", "sleep" or "off"
    stage,        \* which part of the model is running, and the position of its harness
    text,         \* patch harness: the text under patch
    run1,         \* patch harness: result of the first patchBundleSource
    run2,         \* patch harness: result of patchBundleSource on run1's text
    box,          \* codec harness: the container under test
    map1,         \* codec harness: extractFileMap of box
    built,        \* codec harness: buildAsar of box's header and map1
    map2          \* codec harness: extractFileMap of the rebuilt container

vars == <<asar, plist, backup, plistBackup, temp, meta, signature, asar0, plist0, last,
          halfPatched, plan, run, torn, seen, pages, styled, issued, processedTargets, loop,
          stage, text, run1, run2, box, map1, built, map2>>

fsVars == <<asar, plist, backup, plistBackup, temp, meta, signature, asar0, plist0, last,
            halfPatched, plan, run, torn, seen, pages, styled, issued, processedTargets, loop>>
stepVars == <<plan, run, torn, seen>>
watchVars == <<pages, styled, issued, processedTargets, loop>>
patchVars == <<text, run1, run2>>
codecVars == <<box, map1, built, map2>>

----------------------------------------------------------------------------
(* Bounds of the model *)

\* longest text of the patch harness, in cells
MaxText == 4
\* length of the data region of a container of the codec harness, and the
\* largest offset and size one of its header entries declares
MaxData == 3
\* number of cells of one integrity block (INTEGRITY_BLOCK_SIZE, scaled to the model's buffers)
BlockCells == 2

----------------------------------------------------------------------------
(* Constants of the program *)

TARGET_BUNDLE_PATH == ".vite/build/main-CQwPb0Th.js"
PATCH_MARKER == <<"M">>
\* 4 MiB in the source; the model's buffers are a few cells long, so the block
\* size is BlockCells cells, which makes entries of several blocks occur.
INTEGRITY_BLOCK_SIZE == BlockCells

\* Number(x) of a missing or non-numeric field is NaN
NaN == -1

sha256(buffer) == <<"sha256", buffer>>

Min(a, b) == IF a < b THEN a ELSE b

\* buffer.slice(start, end) with 0 <= start, positions counted from 0
Slice(buffer, start, end) ==
    SubSeq(buffer, start + 1, Min(end, Len(buffer)))

----------------------------------------------------------------------------
(* Container Codec *)

NoIntegrity == [algorithm |-> "", hash |-> <<>>, blockSize |-> 0, blocks |-> <<>>]

\* a leaf entry of the header
FileEntry(offset, size, unpacked, mode) ==
    [hasFiles |-> FALSE, files |-> <<>>, offset |-> offset, size |-> size,
     unpacked |-> unpacked, integrity |-> NoIntegrity, mode |-> mode]

\* a directory entry (and the header root)
DirEntry(files) ==
    [hasFiles |-> TRUE, files |-> files, offset |-> NaN, size |-> NaN,
     unpacked |-> FALSE, integrity |-> NoIntegrity, mode |-> ""]

\* a root object without a files property
BareRoot ==
    [hasFiles |-> FALSE, files |-> <<>>, offset |-> NaN, size |-> NaN,
     unpacked |-> FALSE, integrity |-> NoIntegrity, mode |-> ""]

Asar(kind, header, data) == [kind |-> kind, header |-> header, data |-> data]

\* asarBuffer.length < 20, or headerEnd > asarBuffer.length
PreludeOk(asarBuffer) == asarBuffer.kind \notin {"TooSmall", "Overrun"}

getAsarHeaderHash(asarBuffer) ==
    IF ~PreludeOk(asarBuffer)
    THEN [ok |-> FALSE, hash |-> sha256(BareRoot)]
    ELSE [ok |-> TRUE, hash |-> sha256(asarBuffer.header)]

parseAsar(buffer) ==
    IF ~PreludeOk(buffer) \/ buffer.kind = "BadJson"
    THEN [ok |-> FALSE, header |-> BareRoot]
    ELSE [ok |-> TRUE, header |-> buffer.header]

\* prefix ? `${prefix}/${name}` : name
JoinPath(prefix, name) == IF prefix = "" THEN name ELSE prefix \o "/" \o name

RECURSIVE walkFiles(_, _)
walkFiles(files, prefix) ==
    IF files = <<>> THEN <<>>
    ELSE LET name == Head(files)[1]
             entry == Head(files)[2]
             rel == JoinPath(prefix, name)
         IN  (IF entry.hasFiles
              THEN walkFiles(entry.files, rel)
              ELSE << <<rel, entry>> >>)
             \o walkFiles(Tail(files), prefix)

\* the calls visitor(rel, entry) in order
walkLeafEntries(node, prefix) ==
    walkFiles(IF node.hasFiles THEN node.files ELSE <<>>, prefix)

\* the range check of extractFileMap; offsets of the model are never negative
EntryRangeOk(entry, dataLen) ==
    /\ entry.offset # NaN
    /\ entry.size # NaN
    /\ entry.offset + entry.size <= dataLen

RECURSIVE extractLeaves(_, _, _)
extractLeaves(leaves, data, map) ==
    IF leaves = <<>> THEN [ok |-> TRUE, map |-> map]
    ELSE LET relPath == Head(leaves)[1]
             entry == Head(leaves)[2]
         IN  IF entry.unpacked
             THEN extractLeaves(Tail(leaves), data, map)
             ELSE IF ~EntryRangeOk(entry, Len(data))
             THEN [ok |-> FALSE, map |-> map]
             ELSE extractLeaves(
                      Tail(leaves), data,
                      (relPath :> Slice(data, entry.offset, entry.offset + entry.size)) @@ map)

\* dataOffset is the start of asarBuffer.data within the buffer
extractFileMap(asarBuffer, header) ==
    extractLeaves(walkLeafEntries(header, ""), asarBuffer.data, <<>>)

RECURSIVE integrityBlocks(_, _)
integrityBlocks(fileBuffer, offset) ==
    IF offset < Len(fileBuffer)
    THEN <<sha256(Slice(fileBuffer, offset, Min(offset + INTEGRITY_BLOCK_SIZE, Len(fileBuffer))))>>
         \o integrityBlocks(fileBuffer, offset + INTEGRITY_BLOCK_SIZE)
    ELSE <<>>

\* computeEntryIntegrity with the block loop left out: the whole buffer as one block
computeEntryIntegrityOneBlock(fileBuffer) ==
    [algorithm |-> "SHA256",
     hash |-> sha256(fileBuffer),
     blockSize |-> INTEGRITY_BLOCK_SIZE,
     blocks |-> <<sha256(fileBuffer)>>]

computeEntryIntegrity(fileBuffer) ==
    [algorithm |-> "SHA256",
     hash |-> sha256(fileBuffer),
     blockSize |-> INTEGRITY_BLOCK_SIZE,
     blocks |-> integrityBlocks(fileBuffer, 0)]

\* out.files[name] = value on an object literal: the name "__proto__" reaches the
\* prototype setter, which adds no own property
SetProperty(object, name, value) ==
    IF name = "__proto__" THEN object ELSE Append(object, <<name, value>>)

RECURSIVE rebuildFiles(_, _, _, _)
rebuildFiles(files, prefix, fileMap, acc) ==
    IF files = <<>> \/ ~acc.ok THEN acc
    ELSE LET name == Head(files)[1]
             entry == Head(files)[2]
             relPath == JoinPath(prefix, name)
             rest == Tail(files)
         IN  IF entry.hasFiles
             THEN LET sub == rebuildFiles(entry.files, relPath, fileMap,
                                          [acc EXCEPT !.out = <<>>])
                  IN  rebuildFiles(rest, prefix, fileMap,
                          [sub EXCEPT !.out = SetProperty(acc.out, name,
                                                  [entry EXCEPT !.files = sub.out])])
             ELSE IF entry.unpacked
             THEN rebuildFiles(rest, prefix, fileMap,
                      [acc EXCEPT !.out = SetProperty(acc.out, name, entry)])
             ELSE IF relPath \notin DOMAIN fileMap
             THEN [acc EXCEPT !.ok = FALSE]
             ELSE LET fileBuffer == fileMap[relPath]
                      rebuiltEntry == [entry EXCEPT !.offset = acc.runningOffset,
                                                    !.size = Len(fileBuffer),
                                                    !.integrity = computeEntryIntegrity(fileBuffer)]
                  IN  rebuildFiles(rest, prefix, fileMap,
                          [ok |-> TRUE,
                           out |-> SetProperty(acc.out, name, rebuiltEntry),
                           chunks |-> acc.chunks \o fileBuffer,
                           runningOffset |-> acc.runningOffset + Len(fileBuffer)])

buildAsar(header, fileMap) ==
    LET start == [ok |-> TRUE, out |-> <<>>, chunks |-> <<>>, runningOffset |-> 0]
        done == IF header.hasFiles
                THEN rebuildFiles(header.files, "", fileMap, start)
                ELSE start
        rebuiltHeader == IF header.hasFiles
                         THEN [header EXCEPT !.files = done.out]
                         ELSE header
    IN  [ok |-> done.ok, asar |-> Asar("ok", rebuiltHeader, done.chunks)]

----------------------------------------------------------------------------
(* Patch Engine *)

\* The literal fragments, one cell each:
\*   "A"   themeSourceAnchor
\*   "P"   windowCreationAnchor up to and including "installLiquidGlass(y,u),"
\*   "Q"   the rest of windowCreationAnchor, "!U.app.isPackaged"
\*   "C"   "cdpApplyDarcula(y),"
\*   "K1"  "const cdpDarculaCss=" and the opening quote of the CSS literal
\*   "M"   PATCH_MARKER, with which DARCULA_CSS begins
\*   "K2"  the rest of the CSS literal and function cdpApplyDarcula(win){...}
themeSourceAnchor == <<"A">>
helperCode == <<"A", "K1", "M", "K2">>
windowCreationAnchor == <<"P", "Q">>
windowCreationHook == <<"P", "C", "Q">>
helperCall == <<"C">>

\* positions at which pattern occurs in s
Occurrences(s, pattern) ==
    {i \in 1..(Len(s) - Len(pattern) + 1) : SubSeq(s, i, i + Len(pattern) - 1) = pattern}

\* s.includes(pattern)
Includes(s, pattern) == Occurrences(s, pattern) # {}

\* s.replace(pattern, replacement) with a string pattern: the first occurrence only
ReplaceFirst(s, pattern, replacement) ==
    IF ~Includes(s, pattern) THEN s
    ELSE LET i == CHOOSE k \in Occurrences(s, pattern) :
                      \A j \in Occurrences(s, pattern) : k <= j
         IN  SubSeq(s, 1, i - 1) \o replacement \o SubSeq(s, i + Len(pattern), Len(s))

\* patchBundleSource without the check for the second anchor, verifying the marker only
patchBundleSourceNoHookCheck(sourceText) ==
    IF Includes(sourceText, PATCH_MARKER)
    THEN [ok |-> TRUE, sourceText |-> sourceText, alreadyPatched |-> TRUE]
    ELSE IF ~Includes(sourceText, themeSourceAnchor)
    THEN [ok |-> FALSE, sourceText |-> sourceText, alreadyPatched |-> FALSE]
    ELSE LET patched1 == ReplaceFirst(sourceText, themeSourceAnchor, helperCode)
             patched == ReplaceFirst(patched1, windowCreationAnchor, windowCreationHook)
         IN  IF ~Includes(patched, PATCH_MARKER)
             THEN [ok |-> FALSE, sourceText |-> sourceText, alreadyPatched |-> FALSE]
             ELSE [ok |-> TRUE, sourceText |-> patched, alreadyPatched |-> FALSE]

\* patchBundleSource without the early return on the marker
patchBundleSourceNoMarkerCheck(sourceText) ==
    IF ~Includes(sourceText, themeSourceAnchor)
    THEN [ok |-> FALSE, sourceText |-> sourceText, alreadyPatched |-> FALSE]
    ELSE LET patched1 == ReplaceFirst(sourceText, themeSourceAnchor, helperCode)
         IN  IF ~Includes(patched1, windowCreationAnchor)
             THEN [ok |-> FALSE, sourceText |-> sourceText, alreadyPatched |-> FALSE]
             ELSE LET patched == ReplaceFirst(patched1, windowCreationAnchor, windowCreationHook)
                  IN  IF ~Includes(patched, PATCH_MARKER) \/ ~Includes(patched, helperCall)
                      THEN [ok |-> FALSE, sourceText |-> sourceText, alreadyPatched |-> FALSE]
                      ELSE [ok |-> TRUE, sourceText |-> patched, alreadyPatched |-> FALSE]

patchBundleSource(sourceText) ==
    IF Includes(sourceText, PATCH_MARKER)
    THEN [ok |-> TRUE, sourceText |-> sourceText, alreadyPatched |-> TRUE]
    ELSE IF ~Includes(sourceText, themeSourceAnchor)
    THEN [ok |-> FALSE, sourceText |-> sourceText, alreadyPatched |-> FALSE]
    ELSE LET patched1 == ReplaceFirst(sourceText, themeSourceAnchor, helperCode)
         IN  IF ~Includes(patched1, windowCreationAnchor)
             THEN [ok |-> FALSE, sourceText |-> sourceText, alreadyPatched |-> FALSE]
             ELSE LET patched == ReplaceFirst(patched1, windowCreationAnchor, windowCreationHook)
                  IN  IF ~Includes(patched, PATCH_MARKER) \/ ~Includes(patched, helperCall)
                      THEN [ok |-> FALSE, sourceText |-> sourceText, alreadyPatched |-> FALSE]
                      ELSE [ok |-> TRUE, sourceText |-> patched, alreadyPatched |-> FALSE]

\* bundle.toString("utf8"): a byte that is no valid UTF-8 ("bad") decodes to U+FFFD
Utf8Decode(buffer) ==
    [i \in 1..Len(buffer) |-> IF buffer[i] = "bad" THEN "fffd" ELSE buffer[i]]

\* Buffer.from(text, "utf8"): every cell of a text encodes to itself
Utf8Encode(sourceText) == sourceText

loadBundleSourceFromAsar(asarBuffer) ==
    LET parsed == parseAsar(asarBuffer)
        extracted == extractFileMap(asarBuffer, parsed.header)
        failed == [ok |-> FALSE, header |-> BareRoot, fileMap |-> <<>>, bundleSource |-> <<>>]
    IN  IF ~parsed.ok THEN failed
        ELSE IF ~extracted.ok THEN failed
        ELSE IF TARGET_BUNDLE_PATH \notin DOMAIN extracted.map THEN failed
        ELSE [ok |-> TRUE, header |-> parsed.header, fileMap |-> extracted.map,
              bundleSource |-> Utf8Decode(extracted.map[TARGET_BUNDLE_PATH])]

----------------------------------------------------------------------------
(* Files of the bundle, and the calls that touch them *)

\* The files as one record.  Info.plist and app.asar exist throughout: no
\* command removes them, so the ensureExists checks on them pass.
Files == [asar |-> asar, plist |-> plist, backup |-> backup, plistBackup |-> plistBackup,
          temp |-> temp, meta |-> meta, signature |-> signature]

\* The external call that fails in an invocation if the invocation reaches it:
\* a file-system call that throws, or a utility that exits non-zero.
Faults == {"none", "writeBackup", "copyPlistBackup", "printHash", "setHash",
           "writeTemp", "rename", "writeMeta", "copyPlist", "codesign"}

\* ensureBackup without the existsSync checks: every call writes both backups
ensureBackupOverwrite(fs, currentAsarBuffer, fault) ==
    IF fault = "writeBackup" THEN [ok |-> FALSE, fs |-> fs]
    ELSE IF fault = "copyPlistBackup"
    THEN [ok |-> FALSE, fs |-> [fs EXCEPT !.backup = <<currentAsarBuffer>>]]
    ELSE [ok |-> TRUE, fs |-> [fs EXCEPT !.backup = <<currentAsarBuffer>>,
                                         !.plistBackup = <<fs.plist>>]]

ensureBackup(fs, currentAsarBuffer, fault) ==
    LET needAsar == fs.backup = <<>>
        fs1 == IF needAsar THEN [fs EXCEPT !.backup = <<currentAsarBuffer>>] ELSE fs
        needPlist == fs1.plistBackup = <<>>
        fs2 == IF needPlist THEN [fs1 EXCEPT !.plistBackup = <<fs1.plist>>] ELSE fs1
    IN  IF needAsar /\ fault = "writeBackup" THEN [ok |-> FALSE, fs |-> fs]
        ELSE IF needPlist /\ fault = "copyPlistBackup" THEN [ok |-> FALSE, fs |-> fs1]
        ELSE [ok |-> TRUE, fs |-> fs2]

\* codesign --force --deep --sign - : a failure is a warning, never an error
tryCodeSign(fs, fault) ==
    IF fault = "codesign" THEN fs ELSE [fs EXCEPT !.signature = "adhoc"]

\* PlistBuddy Print: fails when the key is missing
getInfoPlistAsarHash(infoPlist, fault) ==
    IF infoPlist = <<>> \/ fault = "printHash"
    THEN [ok |-> FALSE, hash |-> sha256(BareRoot)]
    ELSE [ok |-> TRUE, hash |-> infoPlist[1]]

\* setInfoPlistAsarHash that does not look at the exit status of PlistBuddy
setInfoPlistAsarHashUnchecked(fs, hash, fault) ==
    IF fs.plist = <<>> \/ fault = "setHash"
    THEN [ok |-> TRUE, fs |-> fs]
    ELSE [ok |-> TRUE, fs |-> [fs EXCEPT !.plist = <<hash>>]]

\* PlistBuddy Set: fails when the key is missing
setInfoPlistAsarHash(fs, hash, fault) ==
    IF fs.plist = <<>> \/ fault = "setHash"
    THEN [ok |-> FALSE, fs |-> fs]
    ELSE [ok |-> TRUE, fs |-> [fs EXCEPT !.plist = <<hash>>]]

writeMeta(fs, payload, fault) ==
    IF fault = "writeMeta"
    THEN [ok |-> FALSE, fs |-> fs]
    ELSE [ok |-> TRUE, fs |-> [fs EXCEPT !.meta = <<payload>>]]

\* fs.writeFileSync(paths.tempPath, buffer)
writeTemp(fs, buffer, fault) ==
    IF fault = "writeTemp"
    THEN [ok |-> FALSE, fs |-> fs]
    ELSE [ok |-> TRUE, fs |-> [fs EXCEPT !.temp = <<buffer>>]]

\* fs.renameSync(paths.tempPath, paths.asarPath)
renameTemp(fs, fault) ==
    IF fault = "rename" \/ fs.temp = <<>>
    THEN [ok |-> FALSE, fs |-> fs]
    ELSE [ok |-> TRUE, fs |-> [fs EXCEPT !.asar = fs.temp[1], !.temp = <<>>]]

----------------------------------------------------------------------------
(* Commands *)

NoReport == [patched |-> FALSE, match |-> FALSE, backup |-> FALSE, plistBackup |-> FALSE]

\* what an invocation leaves: the files, whether it threw, and what it printed
Outcome(fs, ok, message, report) ==
    [fs |-> fs, ok |-> ok, message |-> message, report |-> report]

Threw(fs) == Outcome(fs, FALSE, "ERROR", NoReport)

commandStatus(fs, fault) ==
    LET loaded == loadBundleSourceFromAsar(fs.asar)
        headerHash == getAsarHeaderHash(fs.asar)
        plistHash == getInfoPlistAsarHash(fs.plist, fault)
    IN  IF ~loaded.ok \/ ~headerHash.ok \/ ~plistHash.ok THEN Threw(fs)
        ELSE Outcome(fs, TRUE, "status",
                     [patched |-> Includes(loaded.bundleSource, PATCH_MARKER),
                      match |-> headerHash.hash = plistHash.hash,
                      backup |-> fs.backup # <<>>,
                      plistBackup |-> fs.plistBackup # <<>>])

\* the tail of commandPatch once the bundle is known to lack the marker (lines 431-457)
patchRebuild(fs, header, fileMap, patchedBundleSource, originalHash, originalPlistHash, codeSign, fault) ==
    LET rebuilt == buildAsar(header,
                       (TARGET_BUNDLE_PATH :> Utf8Encode(patchedBundleSource)) @@ fileMap)
        rebuiltHash == getAsarHeaderHash(rebuilt.asar)
        w == writeTemp(fs, rebuilt.asar, fault)
        r == renameTemp(w.fs, fault)
        s == setInfoPlistAsarHash(r.fs, rebuiltHash.hash, fault)
        m == writeMeta(s.fs, [oldPlistSha256 |-> originalPlistHash, oldSha256 |-> originalHash,
                              newPlistSha256 |-> rebuiltHash.hash, newSha256 |-> rebuiltHash.hash],
                       fault)
    IN  IF ~rebuilt.ok \/ ~rebuiltHash.ok THEN Threw(fs)
        ELSE IF ~w.ok THEN Threw(w.fs)
        ELSE IF ~r.ok THEN Threw(r.fs)
        ELSE IF ~s.ok THEN Threw(s.fs)
        ELSE IF ~m.ok THEN Threw(m.fs)
        ELSE Outcome(IF codeSign THEN tryCodeSign(m.fs, fault) ELSE m.fs,
                     TRUE, "applied", NoReport)

\* commandPatch that returns as soon as it finds the marker, whatever the manifest holds
commandPatchNoHashFix(fs, codeSign, fault) ==
    LET originalAsar == fs.asar
        b == ensureBackup(fs, originalAsar, fault)
        originalHash == getAsarHeaderHash(originalAsar)
        originalPlistHash == getInfoPlistAsarHash(b.fs.plist, fault)
        loaded == loadBundleSourceFromAsar(originalAsar)
        p == patchBundleSource(loaded.bundleSource)
    IN  IF ~b.ok THEN Threw(b.fs)
        ELSE IF ~originalHash.ok \/ ~originalPlistHash.ok \/ ~loaded.ok \/ ~p.ok THEN Threw(b.fs)
        ELSE IF p.alreadyPatched
        THEN Outcome(b.fs, TRUE, "already applied", NoReport)
        ELSE patchRebuild(b.fs, loaded.header, loaded.fileMap, p.sourceText,
                          originalHash.hash, originalPlistHash.hash, codeSign, fault)

commandPatch(fs, codeSign, fault) ==
    LET originalAsar == fs.asar
        b == ensureBackup(fs, originalAsar, fault)
        originalHash == getAsarHeaderHash(originalAsar)
        originalPlistHash == getInfoPlistAsarHash(b.fs.plist, fault)
        loaded == loadBundleSourceFromAsar(originalAsar)
        p == patchBundleSource(loaded.bundleSource)
        fixed == setInfoPlistAsarHash(b.fs, originalHash.hash, fault)
    IN  IF ~b.ok THEN Threw(b.fs)
        ELSE IF ~originalHash.ok \/ ~originalPlistHash.ok \/ ~loaded.ok \/ ~p.ok THEN Threw(b.fs)
        ELSE IF p.alreadyPatched
        THEN IF originalPlistHash.hash # originalHash.hash
             THEN IF ~fixed.ok THEN Threw(fixed.fs)
                  ELSE Outcome(IF codeSign THEN tryCodeSign(fixed.fs, fault) ELSE fixed.fs,
                               TRUE, "hash fixed", NoReport)
             ELSE Outcome(b.fs, TRUE, "already applied", NoReport)
        ELSE patchRebuild(b.fs, loaded.header, loaded.fileMap, p.sourceText,
                          originalHash.hash, originalPlistHash.hash, codeSign, fault)

\* fs.readFileSync of a path that may be absent, read as an empty buffer
ReadOrEmpty(file) == IF file = <<>> THEN Asar("TooSmall", BareRoot, <<>>) ELSE file[1]

\* commandRestore without ensureExists(paths.backupPath): a missing backup is
\* restored as an empty file
commandRestoreNoBackupCheck(fs, codeSign, fault) ==
    LET w == writeTemp(fs, ReadOrEmpty(fs.backup), fault)
        r == renameTemp(w.fs, fault)
        copied == [r.fs EXCEPT !.plist = r.fs.plistBackup[1]]
        done == IF r.fs.plistBackup # <<>> THEN copied ELSE r.fs
    IN  IF ~w.ok THEN Threw(w.fs)
        ELSE IF ~r.ok THEN Threw(r.fs)
        ELSE IF r.fs.plistBackup # <<>> /\ fault = "copyPlist" THEN Threw(r.fs)
        ELSE Outcome(IF codeSign THEN tryCodeSign(done, fault) ELSE done,
                     TRUE, "restored", NoReport)

\* commandRestore that brings back app.asar and leaves Info.plist alone
commandRestoreAsarOnly(fs, codeSign, fault) ==
    LET w == writeTemp(fs, fs.backup[1], fault)
        r == renameTemp(w.fs, fault)
    IN  IF fs.backup = <<>> THEN Threw(fs)
        ELSE IF ~w.ok THEN Threw(w.fs)
        ELSE IF ~r.ok THEN Threw(r.fs)
        ELSE Outcome(IF codeSign THEN tryCodeSign(r.fs, fault) ELSE r.fs,
                     TRUE, "restored", NoReport)

commandRestore(fs, codeSign, fault) ==
    LET w == writeTemp(fs, fs.backup[1], fault)
        r == renameTemp(w.fs, fault)
        copied == [r.fs EXCEPT !.plist = r.fs.plistBackup[1]]
        done == IF r.fs.plistBackup # <<>> THEN copied ELSE r.fs
    IN  IF fs.backup = <<>> THEN Threw(fs)
        ELSE IF ~w.ok THEN Threw(w.fs)
        ELSE IF ~r.ok THEN Threw(r.fs)
        ELSE IF r.fs.plistBackup # <<>> /\ fault = "copyPlist" THEN Threw(r.fs)
        ELSE Outcome(IF codeSign THEN tryCodeSign(done, fault) ELSE done,
                     TRUE, "restored", NoReport)

----------------------------------------------------------------------------
(* The bundles the tool is pointed at *)

FreshText == <<"x", "A", "x", "P", "Q">>
NoThemeAnchorText == <<"x", "P", "Q">>
NoHookAnchorText == <<"A", "x", "P">>
PatchedText == patchBundleSource(FreshText).sourceText
MarkerOnlyText == <<"M", "x">>
BadByteText == <<"bad", "A", "P", "Q">>

BundleTexts == {FreshText, NoThemeAnchorText, NoHookAnchorText, PatchedText,
                MarkerOnlyText, BadByteText}

\* the header path .vite / build / main-CQwPb0Th.js down to one leaf
TargetTree(leaf) ==
    <<".vite", DirEntry(<< <<"build", DirEntry(<< <<"main-CQwPb0Th.js", leaf>> >>)>> >>)>>

\* the bundle as the only entry
AloneAsar(bundle) ==
    Asar("ok",
         DirEntry(<<TargetTree(FileEntry(0, Len(bundle), FALSE, ""))>>),
         bundle)

\* the bundle listed first in the header but stored last in the data region,
\* beside a packed file and an unpacked executable
CrowdedAsar(bundle) ==
    Asar("ok",
         DirEntry(<<TargetTree(FileEntry(2, Len(bundle), FALSE, "")),
                    <<"package.json", FileEntry(0, 2, FALSE, "")>>,
                    <<"helper.node", FileEntry(NaN, 7, TRUE, "x")>> >>),
         <<"0", "1">> \o bundle)

OddAsars ==
    {Asar("TooSmall", BareRoot, <<>>),
     Asar("Overrun", BareRoot, <<>>),
     Asar("BadJson", BareRoot, <<>>),
     \* no target bundle
     Asar("ok", DirEntry(<< <<"package.json", FileEntry(0, 2, FALSE, "")>> >>), <<"0", "1">>),
     \* the target bundle is unpacked
     Asar("ok", DirEntry(<<TargetTree(FileEntry(NaN, 5, TRUE, ""))>>), <<>>),
     \* the target entry reaches past the end of the buffer
     Asar("ok", DirEntry(<<TargetTree(FileEntry(1, 5, FALSE, ""))>>), FreshText)}

LiveAsars ==
    {AloneAsar(t) : t \in BundleTexts} \cup {CrowdedAsar(t) : t \in BundleTexts} \cup OddAsars

\* a hash that is the header digest of none of the containers
StaleHash == sha256(DirEntry(<<>>))

LivePlists(a) == {<<>>, <<StaleHash>>, <<getAsarHeaderHash(a).hash>>}

\* values of the harness variables while the commands run
IdleText == <<>>
IdleRun == [ok |-> FALSE, sourceText |-> <<>>, alreadyPatched |-> FALSE]
IdleBox == Asar("TooSmall", BareRoot, <<>>)
IdleMap == [ok |-> FALSE, map |-> <<>>]
IdleBuilt == [ok |-> FALSE, asar |-> IdleBox]

HarnessIdle ==
    /\ text = IdleText /\ run1 = IdleRun /\ run2 = IdleRun
    /\ box = IdleBox /\ map1 = IdleMap /\ built = IdleBuilt /\ map2 = IdleMap

\* values of the step view while whole invocations or a harness run
NoRun == [cmd |-> "none", pre |-> <<>>, post |-> <<>>]
NoSight == [path |-> "none", kind |-> "none"]

NoSteps == plan = <<>> /\ run = NoRun /\ torn = {} /\ seen = NoSight

\* the runtime injector is not running
NoWatch ==
    /\ pages = {} /\ styled = {} /\ issued = {}
    /\ processedTargets = {} /\ loop = "off"

----------------------------------------------------------------------------
(* The commands as actions *)

Init ==
    /\ asar \in LiveAsars
    /\ plist \in LivePlists(asar)
    /\ backup = <<>>
    /\ plistBackup = <<>>
    /\ temp = <<>>
    /\ meta = <<>>
    /\ signature = "vendor"
    /\ asar0 = asar
    /\ plist0 = plist
    /\ last = [cmd |-> "none", ok |-> TRUE, message |-> "", report |-> NoReport,
               recovering |-> FALSE,
               pre |-> [asar |-> asar, plist |-> plist, backup |-> <<>>,
                        plistBackup |-> <<>>, temp |-> <<>>, meta |-> <<>>,
                        signature |-> "vendor"]]
    /\ halfPatched = FALSE
    /\ NoSteps
    /\ NoWatch
    /\ stage = "commands"
    /\ HarnessIdle

\* the files after an invocation, and the record of it
Invoke(cmd, outcome) ==
    /\ asar' = outcome.fs.asar
    /\ plist' = outcome.fs.plist
    /\ backup' = outcome.fs.backup
    /\ plistBackup' = outcome.fs.plistBackup
    /\ temp' = outcome.fs.temp
    /\ meta' = outcome.fs.meta
    /\ signature' = outcome.fs.signature
    /\ last' = [cmd |-> cmd, ok |-> outcome.ok, message |-> outcome.message,
                report |-> outcome.report, recovering |-> halfPatched, pre |-> Files]
    /\ halfPatched' =
           IF cmd = "patch" /\ ~outcome.ok /\ outcome.fs.asar # asar /\ outcome.fs.plist = plist
           THEN TRUE
           ELSE IF outcome.fs.asar = asar /\ outcome.fs.plist = plist
           THEN halfPatched
           ELSE FALSE
    /\ UNCHANGED <<asar0, plist0, stepVars, watchVars, stage, patchVars, codecVars>>

Status ==
    /\ stage = "commands"
    /\ \E fault \in Faults : Invoke("status", commandStatus(Files, fault))

Patch ==
    /\ stage = "commands"
    /\ \E codeSign \in BOOLEAN, fault \in Faults :
           Invoke("patch", commandPatch(Files, codeSign, fault))

Restore ==
    /\ stage = "commands"
    /\ \E codeSign \in BOOLEAN, fault \in Faults :
           Invoke("restore", commandRestore(Files, codeSign, fault))

Next == Status \/ Patch \/ Restore

Spec == Init /\ [][Next]_vars

\* the bundle's files while something other than the commands runs
BundleIdle ==
    /\ asar = IdleBox /\ plist = <<>> /\ backup = <<>> /\ plistBackup = <<>>
    /\ temp = <<>> /\ meta = <<>> /\ signature = "vendor"
    /\ asar0 = IdleBox /\ plist0 = <<>>
    /\ last = [cmd |-> "none", ok |-> TRUE, message |-> "", report |-> NoReport,
               recovering |-> FALSE,
               pre |-> [asar |-> IdleBox, plist |-> <<>>, backup |-> <<>>,
                        plistBackup |-> <<>>, temp |-> <<>>, meta |-> <<>>,
                        signature |-> "vendor"]]
    /\ halfPatched = FALSE
    /\ NoSteps

\* the files while a pure-function harness runs
FilesIdle == BundleIdle /\ NoWatch

----------------------------------------------------------------------------
(* patchBundleSource applied to a text, and then to its own result *)

TextCells == {"A", "P", "Q", "C", "M", "x"}

Texts == UNION {[1..n -> TextCells] : n \in 0..MaxText}

InitPatch ==
    /\ stage = "text"
    /\ text \in Texts
    /\ run1 = IdleRun /\ run2 = IdleRun
    /\ box = IdleBox /\ map1 = IdleMap /\ built = IdleBuilt /\ map2 = IdleMap
    /\ FilesIdle

ApplyOnce ==
    /\ stage = "text"
    /\ run1' = patchBundleSource(text)
    /\ stage' = "once"
    /\ UNCHANGED <<fsVars, text, run2, codecVars>>

ApplyAgain ==
    /\ stage = "once"
    /\ run1.ok
    /\ run2' = patchBundleSource(run1.sourceText)
    /\ stage' = "twice"
    /\ UNCHANGED <<fsVars, text, run1, codecVars>>

NextPatch == ApplyOnce \/ ApplyAgain

SpecPatch == InitPatch /\ [][NextPatch]_vars

----------------------------------------------------------------------------
(* parseAsar, extractFileMap and buildAsar applied to a container *)

\* the data region of the containers: MaxData distinct bytes
BoxData == [i \in 1..MaxData |-> ToString(i)]

PackedLeaves == {FileEntry(o, s, FALSE, "") : o \in 0..MaxData, s \in 0..MaxData}

Leaves == PackedLeaves \cup {FileEntry(NaN, 1, TRUE, "x"), FileEntry(NaN, 0, FALSE, "")}

EntryNames == {"a", "b", "__proto__"}

Entries ==
    Leaves \cup {DirEntry(<<>>)}
        \cup {DirEntry(<< <<n, l>> >>) : n \in EntryNames, l \in Leaves}

Roots ==
    {BareRoot, DirEntry(<<>>)}
        \cup {DirEntry(<< <<n, e>> >>) : n \in EntryNames, e \in Entries}
        \cup {DirEntry(<<p[1], p[2]>>) :
                 p \in {q \in (EntryNames \X Entries) \X (EntryNames \X Entries) :
                            q[1][1] # q[2][1]}}

Boxes ==
    {Asar("ok", r, BoxData) : r \in Roots}
        \cup {Asar(k, BareRoot, <<>>) : k \in {"TooSmall", "Overrun", "BadJson"}}

\* parseAsar followed by extractFileMap
ParseAndExtract(asarBuffer) ==
    LET parsed == parseAsar(asarBuffer)
    IN  IF ~parsed.ok THEN [ok |-> FALSE, map |-> <<>>]
        ELSE extractFileMap(asarBuffer, parsed.header)

\* buffers an edit session may put in the entry map
EditBuffers == {<<>>, <<"x">>, FreshText}

InitCodec ==
    /\ stage = "box"
    /\ box \in Boxes
    /\ map1 = IdleMap /\ built = IdleBuilt /\ map2 = IdleMap
    /\ text = IdleText /\ run1 = IdleRun /\ run2 = IdleRun
    /\ FilesIdle

Extract ==
    /\ stage = "box"
    /\ map1' = ParseAndExtract(box)
    /\ stage' = "extracted"
    /\ UNCHANGED <<fsVars, patchVars, box, built, map2>>

\* an edit session replaces the content of one entry
EditEntry ==
    /\ stage = "extracted"
    /\ map1.ok
    /\ \E p \in DOMAIN map1.map, b \in EditBuffers :
           /\ b # map1.map[p]
           /\ map1' = [map1 EXCEPT !.map = (p :> b) @@ map1.map]
    /\ stage' = "edited"
    /\ UNCHANGED <<fsVars, patchVars, box, built, map2>>

Rebuild ==
    /\ stage \in {"extracted", "edited"}
    /\ map1.ok
    /\ built' = buildAsar(box.header, map1.map)
    /\ stage' = IF stage = "extracted" THEN "rebuilt" ELSE "rebuilt edited"
    /\ UNCHANGED <<fsVars, patchVars, box, map1, map2>>

ExtractAgain ==
    /\ stage \in {"rebuilt", "rebuilt edited"}
    /\ built.ok
    /\ map2' = ParseAndExtract(built.asar)
    /\ stage' = IF stage = "rebuilt" THEN "round trip" ELSE "round trip edited"
    /\ UNCHANGED <<fsVars, patchVars, box, map1, built>>

NextCodec == Extract \/ EditEntry \/ Rebuild \/ ExtractAgain

SpecCodec == InitCodec /\ [][NextCodec]_vars

----------------------------------------------------------------------------
(* Properties of the commands, checked under Spec *)

\* the target entry of a container can be read and its text holds the Patch Marker
BundleHasMarker(asarBuffer) ==
    LET loaded == loadBundleSourceFromAsar(asarBuffer)
    IN  loaded.ok /\ Includes(loaded.bundleSource, PATCH_MARKER)

\* the header digest of a container is the hash the manifest stores
InSync(asarBuffer, infoPlist) ==
    /\ getAsarHeaderHash(asarBuffer).ok
    /\ infoPlist = <<getAsarHeaderHash(asarBuffer).hash>>

\* C1: every patch invocation that completes without error (rebuilt, hash
\* fixed, or nothing to do) leaves the header digest of the live container
\* equal to the hash in the manifest, and a status run right after it reports
\* patched: yes and integrity-match: yes.
C1_PatchLeavesHashInSync ==
    (last.cmd = "patch" /\ last.ok) =>
        /\ InSync(asar, plist)
        /\ LET s == commandStatus(Files, "none")
           IN  s.ok /\ s.report.patched /\ s.report.match

\* a patch that rebuilt the container over a manifest that held another hash
C1_Witness ==
    /\ last.cmd = "patch" /\ last.ok /\ last.message = "applied"
    /\ asar # last.pre.asar
    /\ plist # last.pre.plist

\* C2: a patch or restore invocation that fails leaves the live container and
\* the live manifest both as they were before the invocation.
C2_AllOrNothing ==
    (last.cmd \in {"patch", "restore"} /\ ~last.ok) =>
        (asar = last.pre.asar /\ plist = last.pre.plist)

\* the target text of a container lacks the marker and lacks the first anchor,
\* or has the first anchor and lacks the second
LacksAnAnchor(asarBuffer) ==
    LET loaded == loadBundleSourceFromAsar(asarBuffer)
    IN  /\ loaded.ok
        /\ ~Includes(loaded.bundleSource, PATCH_MARKER)
        /\ \/ ~Includes(loaded.bundleSource, themeSourceAnchor)
           \/ /\ Includes(loaded.bundleSource, themeSourceAnchor)
              /\ ~Includes(loaded.bundleSource, windowCreationAnchor)

\* C3: patch on a container whose target text has no marker and lacks the
\* first anchor, or has the first and lacks the second, fails, leaves the live
\* container untouched and writes no rebuilt container anywhere.
C3_MissingAnchorFailsUntouched ==
    (last.cmd = "patch" /\ LacksAnAnchor(last.pre.asar)) =>
        /\ ~last.ok
        /\ asar = last.pre.asar
        /\ temp = last.pre.temp

\* such a patch got as far as the patch engine: it made the backups first, on a
\* text that has the first anchor only
C3_Witness ==
    /\ last.cmd = "patch"
    /\ LacksAnAnchor(last.pre.asar)
    /\ Includes(loadBundleSourceFromAsar(last.pre.asar).bundleSource, themeSourceAnchor)
    /\ last.pre.backup = <<>>
    /\ backup # <<>>
    /\ plistBackup # <<>>

\* C4: whenever a container backup exists its target entry does not hold the
\* Patch Marker, and a manifest backup is the manifest as it was before any
\* patch, whatever the live files were when patch first made the backup.
C4_BackupIsPrePatch ==
    /\ backup # <<>> => ~BundleHasMarker(backup[1])
    /\ plistBackup # <<>> => plistBackup[1] = plist0

\* C5: once a container backup or a manifest backup exists, no invocation
\* changes it.
C5_BackupNeverChanges ==
    [][/\ backup # <<>> => backup' = backup
       /\ plistBackup # <<>> => plistBackup' = plistBackup]_vars

\* the backup step ran a second time, in a patch that went on to rebuild the
\* live container
C5_Witness ==
    /\ last.cmd = "patch" /\ last.ok /\ last.message = "applied"
    /\ last.pre.backup # <<>>
    /\ last.pre.plistBackup # <<>>
    /\ backup[1] # asar

\* C6: a successful restore leaves the Backup Set as it was, the live container
\* equal to the backed-up container and, when a manifest backup exists, the
\* live manifest equal to it; from an unpatched container the live container
\* is back at its original bytes; and a second restore changes nothing.
C6_RestoreReturnsBackup ==
    (last.cmd = "restore" /\ last.ok) =>
        /\ backup = last.pre.backup
        /\ plistBackup = last.pre.plistBackup
        /\ asar = backup[1]
        /\ plistBackup # <<>> => plist = plistBackup[1]
        /\ ~BundleHasMarker(asar0) => asar = asar0
        /\ LET again == commandRestore(Files, FALSE, "none")
           IN  again.ok /\ again.fs = Files

\* a restore that undid a patch of an unpatched container
C6_Witness ==
    /\ last.cmd = "restore" /\ last.ok
    /\ ~BundleHasMarker(asar0)
    /\ BundleHasMarker(last.pre.asar)
    /\ plist # last.pre.plist

\* C7: patch on a container whose target entry holds the Patch Marker, with the
\* manifest hash equal to the header digest, changes neither the live
\* container, nor the live manifest, nor either backup.
C7_RepatchChangesNothing ==
    (/\ last.cmd = "patch"
     /\ BundleHasMarker(last.pre.asar)
     /\ InSync(last.pre.asar, last.pre.plist)) =>
        /\ asar = last.pre.asar
        /\ plist = last.pre.plist
        /\ backup = last.pre.backup
        /\ plistBackup = last.pre.plistBackup

----------------------------------------------------------------------------
(* Properties of patchBundleSource, checked under SpecPatch *)

\* number of places at which pattern occurs in s
Count(s, pattern) == Cardinality(Occurrences(s, pattern))

\* C8: for every text on which patchBundleSource succeeds, patching its result
\* returns that result unchanged and flagged already patched; so a text that
\* had no marker holds, after any number of applications, one marker, one
\* helper definition and one helper call more than before.
C8_PatchIdempotent ==
    stage = "twice" =>
        /\ run2 = [ok |-> TRUE, sourceText |-> run1.sourceText, alreadyPatched |-> TRUE]
        /\ run1.alreadyPatched => run1.sourceText = text
        /\ ~run1.alreadyPatched =>
               /\ Count(run2.sourceText, PATCH_MARKER) = 1
               /\ Count(run2.sourceText, <<"K1", "M", "K2">>) = 1
               /\ Count(run2.sourceText, helperCall) = Count(text, helperCall) + 1
               /\ Count(run2.sourceText, windowCreationHook)
                      = Count(text, windowCreationHook) + 1

\* the patch was inserted by the first application and met again by the second,
\* in a text that keeps a further copy of the first anchor
C8_Witness ==
    /\ stage = "twice"
    /\ ~run1.alreadyPatched
    /\ run1.sourceText # text
    /\ Count(text, themeSourceAnchor) = 2

----------------------------------------------------------------------------
(* Properties of the codec, checked under SpecCodec *)

\* C9: for a container that parses and extracts without error, rebuilding it
\* from its header and its unmodified entry map succeeds, and parsing and
\* extracting the rebuilt container gives an entry map with the same paths
\* and the same bytes for every path.
C9_RoundTrip ==
    /\ stage = "rebuilt" => built.ok
    /\ stage = "round trip" =>
           /\ map2.ok
           /\ DOMAIN map2.map = DOMAIN map1.map
           /\ \A p \in DOMAIN map1.map : map2.map[p] = map1.map[p]

\* ceil(size / blockSize)
BlockCount(size, blockSize) == (size + blockSize - 1) \div blockSize

\* C10: after a rebuild, every packed entry of the rebuilt header points at
\* the bytes of its buffer in the entry map; its integrity record holds the
\* digest of those bytes and one digest per block of INTEGRITY_BLOCK_SIZE, in
\* order, ceil(size / blockSize) of them (none for an empty entry), each the
\* digest of its block.
C10_RebuiltEntriesAndIntegrity ==
    (stage \in {"rebuilt", "rebuilt edited"} /\ built.ok) =>
        LET leaves == walkLeafEntries(built.asar.header, "")
            data == built.asar.data
        IN  \A k \in 1..Len(leaves) :
                LET relPath == leaves[k][1]
                    entry == leaves[k][2]
                    stored == SubSeq(data, entry.offset + 1, entry.offset + entry.size)
                    record == entry.integrity
                IN  ~entry.unpacked =>
                        /\ entry.offset >= 0 /\ entry.size >= 0
                        /\ entry.offset + entry.size <= Len(data)
                        /\ stored = map1.map[relPath]
                        /\ record.algorithm = "SHA256"
                        /\ record.blockSize = INTEGRITY_BLOCK_SIZE
                        /\ record.hash = sha256(stored)
                        /\ Len(record.blocks) = BlockCount(entry.size, INTEGRITY_BLOCK_SIZE)
                        /\ \A i \in 1..Len(record.blocks) :
                               record.blocks[i] =
                                   sha256(SubSeq(stored,
                                                 (i - 1) * INTEGRITY_BLOCK_SIZE + 1,
                                                 Min(i * INTEGRITY_BLOCK_SIZE, entry.size)))

\* a rebuild after an edit, of a header with two packed entries: the second
\* one is stored behind the first and has several blocks, the last one short
C10_Witness ==
    /\ stage = "rebuilt edited" /\ built.ok
    /\ LET leaves == walkLeafEntries(built.asar.header, "")
       IN  /\ Len(leaves) = 2
           /\ ~leaves[1][2].unpacked /\ ~leaves[2][2].unpacked
           /\ leaves[2][2].offset > 0
           /\ leaves[2][2].size > INTEGRITY_BLOCK_SIZE
           /\ leaves[2][2].size % INTEGRITY_BLOCK_SIZE # 0

----------------------------------------------------------------------------
(* Further properties of the commands, checked under Spec *)

\* C12: restore when no container backup exists fails, and leaves the live
\* container, the live manifest and the temporary path as they were.
C12_RestoreWithoutBackupFails ==
    (last.cmd = "restore" /\ last.pre.backup = <<>>) =>
        /\ ~last.ok
        /\ asar = last.pre.asar
        /\ plist = last.pre.plist
        /\ temp = last.pre.temp

\* a restore without a container backup, on a bundle on which nothing has
\* been written yet
C12_Witness ==
    /\ last.cmd = "restore"
    /\ last.pre.backup = <<>>
    /\ ~last.ok
    /\ temp = <<>>

\* C14 as stated: after a patch that replaced the live container and stopped
\* before the manifest hash was written, the next patch that completes finds
\* the marker, leaves the live container and the temporary path alone, and
\* writes the header digest of the live container into the manifest.
C14_RecoveryWritesHash ==
    (last.cmd = "patch" /\ last.ok /\ last.recovering) =>
        /\ last.message = "hash fixed"
        /\ asar = last.pre.asar
        /\ temp = last.pre.temp
        /\ BundleHasMarker(asar)
        /\ ~InSync(last.pre.asar, last.pre.plist)
        /\ InSync(asar, plist)

\* C14, amended: after such a patch the next patch that completes finds the
\* marker and leaves the live container and the temporary path alone; it
\* writes the header digest of the live container into the manifest unless
\* the manifest already holds it, and then leaves the manifest alone; either
\* way the header digest and the manifest hash match after it.
C14_RecoversHalfFinishedPatch ==
    (last.cmd = "patch" /\ last.ok /\ last.recovering) =>
        /\ asar = last.pre.asar
        /\ temp = last.pre.temp
        /\ BundleHasMarker(asar)
        /\ InSync(asar, plist)
        /\ IF InSync(last.pre.asar, last.pre.plist)
           THEN last.message = "already applied" /\ plist = last.pre.plist
           ELSE last.message = "hash fixed" /\ plist # last.pre.plist

\* a patch that completed on a half-finished patch of an unpatched container
\* and had to write the hash
C14_Witness ==
    /\ last.cmd = "patch" /\ last.ok /\ last.recovering
    /\ last.message = "hash fixed"
    /\ ~BundleHasMarker(asar0)
    /\ backup = <<asar0>>
    /\ asar # asar0

----------------------------------------------------------------------------
(* The commands one file-system call at a time, beside a concurrent reader *)

\* fs.writeFileSync(path, ...) and fs.copyFileSync(..., path): the file at path
\* is opened and written in place
WriteCall(path, content) == [op |-> "write", path |-> path, content |-> content]
\* fs.renameSync(paths.tempPath, paths.asarPath)
RenameCall == [op |-> "rename", path |-> "asar", content |-> <<>>]
\* PlistBuddy Set on Info.plist; how the utility saves the file is its own
\* affair, and is taken as one step
SetCall(hash) == [op |-> "set", path |-> "plist", content |-> << <<hash>> >>]

\* the writes of ensureBackup, in order
backupCalls(fs) ==
    (IF fs.backup = <<>> THEN <<WriteCall("backup", <<fs.asar>>)>> ELSE <<>>)
        \o (IF fs.plistBackup = <<>> THEN <<WriteCall("plistBackup", <<fs.plist>>)>> ELSE <<>>)

\* the file-system calls of commandPatch with --no-codesign when none of them
\* fails, in order
patchCalls(fs) ==
    LET originalHash == getAsarHeaderHash(fs.asar)
        originalPlistHash == getInfoPlistAsarHash(fs.plist, "none")
        loaded == loadBundleSourceFromAsar(fs.asar)
        p == patchBundleSource(loaded.bundleSource)
        rebuilt == buildAsar(loaded.header,
                       (TARGET_BUNDLE_PATH :> Utf8Encode(p.sourceText)) @@ loaded.fileMap)
        rebuiltHash == getAsarHeaderHash(rebuilt.asar)
    IN  backupCalls(fs) \o
        (IF ~originalHash.ok \/ ~originalPlistHash.ok \/ ~loaded.ok \/ ~p.ok THEN <<>>
         ELSE IF p.alreadyPatched
         THEN IF originalPlistHash.hash # originalHash.hash
              THEN <<SetCall(originalHash.hash)>>
              ELSE <<>>
         ELSE <<WriteCall("temp", <<rebuilt.asar>>),
                RenameCall,
                SetCall(rebuiltHash.hash),
                WriteCall("meta", <<[oldPlistSha256 |-> originalPlistHash.hash,
                                     oldSha256 |-> originalHash.hash,
                                     newPlistSha256 |-> rebuiltHash.hash,
                                     newSha256 |-> rebuiltHash.hash]>>)>>)

\* the file-system calls of commandRestore with --no-codesign, in order
restoreCalls(fs) ==
    IF fs.backup = <<>> THEN <<>>
    ELSE <<WriteCall("temp", fs.backup), RenameCall>>
         \o (IF fs.plistBackup # <<>> THEN <<WriteCall("plist", fs.plistBackup)>> ELSE <<>>)

InitSteps ==
    /\ asar \in LiveAsars
    /\ plist \in LivePlists(asar)
    /\ backup = <<>>
    /\ plistBackup = <<>>
    /\ temp = <<>>
    /\ meta = <<>>
    /\ signature = "vendor"
    /\ asar0 = asar
    /\ plist0 = plist
    /\ last = [cmd |-> "none", ok |-> TRUE, message |-> "", report |-> NoReport,
               recovering |-> FALSE,
               pre |-> [asar |-> asar, plist |-> plist, backup |-> <<>>,
                        plistBackup |-> <<>>, temp |-> <<>>, meta |-> <<>>,
                        signature |-> "vendor"]]
    /\ halfPatched = FALSE
    /\ NoSteps
    /\ NoWatch
    /\ stage = "steps"
    /\ HarnessIdle

\* the tool is started when no invocation is running
Idle == plan = <<>> /\ torn = {}

StepFrame == UNCHANGED <<signature, asar0, plist0, last, halfPatched, watchVars, stage, patchVars, codecVars>>

StartPatch ==
    /\ stage = "steps"
    /\ Idle
    /\ plan' = patchCalls(Files)
    /\ run' = [cmd |-> "patch", pre |-> <<Files>>,
               post |-> <<commandPatch(Files, FALSE, "none").fs>>]
    /\ UNCHANGED <<asar, plist, backup, plistBackup, temp, meta, torn, seen>>
    /\ StepFrame

StartRestore ==
    /\ stage = "steps"
    /\ Idle
    /\ plan' = restoreCalls(Files)
    /\ run' = [cmd |-> "restore", pre |-> <<Files>>,
               post |-> <<commandRestore(Files, FALSE, "none").fs>>]
    /\ UNCHANGED <<asar, plist, backup, plistBackup, temp, meta, torn, seen>>
    /\ StepFrame

\* the file at path gets content; the other files stay
PutFile(path, content) ==
    /\ asar' = IF path = "asar" THEN content[1] ELSE asar
    /\ plist' = IF path = "plist" THEN content[1] ELSE plist
    /\ backup' = IF path = "backup" THEN content ELSE backup
    /\ plistBackup' = IF path = "plistBackup" THEN content ELSE plistBackup
    /\ temp' = IF path = "temp" THEN content ELSE temp
    /\ meta' = IF path = "meta" THEN content ELSE meta

\* an in-place write opens its file: from here on the file is partly written
OpenForWrite ==
    /\ stage = "steps"
    /\ plan # <<>>
    /\ Head(plan).op = "write"
    /\ Head(plan).path \notin torn
    /\ torn' = torn \cup {Head(plan).path}
    /\ UNCHANGED <<asar, plist, backup, plistBackup, temp, meta, plan, run, seen>>
    /\ StepFrame

\* the in-place write completes
CloseAfterWrite ==
    /\ stage = "steps"
    /\ plan # <<>>
    /\ Head(plan).op = "write"
    /\ Head(plan).path \in torn
    /\ PutFile(Head(plan).path, Head(plan).content)
    /\ torn' = torn \ {Head(plan).path}
    /\ plan' = Tail(plan)
    /\ UNCHANGED <<run, seen>>
    /\ StepFrame

\* the rename puts the complete temporary file at the live path in one step
RenameStep ==
    /\ stage = "steps"
    /\ plan # <<>>
    /\ Head(plan).op = "rename"
    /\ asar' = temp[1]
    /\ temp' = <<>>
    /\ plan' = Tail(plan)
    /\ UNCHANGED <<plist, backup, plistBackup, meta, run, torn, seen>>
    /\ StepFrame

SetStep ==
    /\ stage = "steps"
    /\ plan # <<>>
    /\ Head(plan).op = "set"
    /\ plist' = Head(plan).content[1]
    /\ plan' = Tail(plan)
    /\ UNCHANGED <<asar, backup, plistBackup, temp, meta, run, torn, seen>>
    /\ StepFrame

\* what a reader that opens a live path now finds there
Sight(path) ==
    LET now == IF path = "asar" THEN <<asar>> ELSE <<plist>>
        old == IF path = "asar" THEN <<run.pre[1].asar>> ELSE <<run.pre[1].plist>>
        new == IF path = "asar" THEN <<run.post[1].asar>> ELSE <<run.post[1].plist>>
    IN  IF path \in torn THEN "partial"
        ELSE IF now = old THEN "old"
        ELSE IF now = new THEN "new"
        ELSE "other"

\* another process (the OS launching the application) reads a live path
Observe ==
    /\ stage = "steps"
    /\ run.cmd # "none"
    /\ \E path \in {"asar", "plist"} : seen' = [path |-> path, kind |-> Sight(path)]
    /\ UNCHANGED <<asar, plist, backup, plistBackup, temp, meta, plan, run, torn>>
    /\ StepFrame

NextSteps ==
    StartPatch \/ StartRestore \/ OpenForWrite \/ CloseAfterWrite \/ RenameStep \/ SetStep
        \/ Observe

SpecSteps == InitSteps /\ [][NextSteps]_vars

\* the calls of an invocation, made one by one, leave the files commandPatch
\* and commandRestore leave
StepsAgreeWithCommands ==
    (stage = "steps" /\ run.cmd # "none" /\ Idle) => Files = run.post[1]

\* C11: the live container and the live manifest change only by a rename of a
\* complete temporary file, so a reader of a live path finds, at any point of
\* a patch or restore, the complete content from before the invocation or the
\* complete content from after it.
C11_ReaderSeesOldOrNew ==
    /\ "asar" \notin torn
    /\ "plist" \notin torn
    /\ seen.kind \in {"none", "old", "new"}

----------------------------------------------------------------------------
(* codex-darcula-runtime-inject.js in watch mode, beside the application *)

\* number of target ids the application gives out
MaxTargets == 3

TargetIds == 1..MaxTargets

\* injectToTargets on the page targets listed, the documents holding the
\* style element and the Set of processed ids; cdpEval throws for the pages in
\* failing.  buildInjectExpression leaves the document with the style
\* element, buildRemoveExpression without it.
injectToTargets(listed, remove, processed, docs, failing) ==
    LET attempted == {t \in listed : ~(t \in processed /\ ~remove)}
        done == attempted \ failing
    IN  [processedTargets |-> processed \cup done,
         styled |-> IF remove THEN docs \ done ELSE docs \cup done]

\* main() enters the watch loop with an empty Set; the application may have
\* windows open already
InitWatch ==
    /\ BundleIdle
    /\ HarnessIdle
    /\ stage = "watch"
    /\ pages \in SUBSET TargetIds
    /\ styled = {}
    /\ issued = pages
    /\ processedTargets = {}
    /\ loop = "poll"

WatchFrame == UNCHANGED <<asar, plist, backup, plistBackup, temp, meta, signature, asar0, plist0, last, halfPatched, stepVars, stage, patchVars, codecVars>>

\* one iteration of the watch loop up to the sleep: fetchTargets answers
\* (fetched) or throws, and cdpEval throws for the pages in failing
Poll(fetched, failing) ==
    /\ stage = "watch"
    /\ loop = "poll"
    /\ LET r == injectToTargets(pages, FALSE, processedTargets, styled, failing)
       IN  IF fetched
           THEN processedTargets' = r.processedTargets /\ styled' = r.styled
           ELSE UNCHANGED <<processedTargets, styled>>
    /\ loop' = "sleep"
    /\ UNCHANGED <<pages, issued>>
    /\ WatchFrame

\* an iteration in which the endpoint answers and every evaluation succeeds
PollInjects == Poll(TRUE, {})

\* an iteration in which the endpoint is unavailable or an evaluation throws
PollFails ==
    \/ Poll(FALSE, {})
    \/ \E failing \in (SUBSET pages) \ {{}} : Poll(TRUE, failing)

\* sleep(POLL_INTERVAL_MS) resolves
Wake ==
    /\ stage = "watch"
    /\ loop = "sleep"
    /\ loop' = "poll"
    /\ UNCHANGED <<pages, styled, issued, processedTargets>>
    /\ WatchFrame

\* the application opens a window: a page target with an id not given out before
OpenWindow ==
    /\ stage = "watch"
    /\ \E t \in TargetIds \ issued :
           /\ pages' = pages \cup {t}
           /\ issued' = issued \cup {t}
    /\ UNCHANGED <<styled, processedTargets, loop>>
    /\ WatchFrame

\* a window closes: its target is no longer listed
CloseWindow ==
    /\ stage = "watch"
    /\ \E t \in pages :
           /\ pages' = pages \ {t}
           /\ styled' = styled \ {t}
    /\ UNCHANGED <<issued, processedTargets, loop>>
    /\ WatchFrame

\* a page reloads: the target keeps its id and gets a new document, which
\* has no style element
Reload ==
    /\ stage = "watch"
    /\ \E t \in pages : styled' = styled \ {t}
    /\ UNCHANGED <<pages, issued, processedTargets, loop>>
    /\ WatchFrame

NextWatch == PollInjects \/ PollFails \/ Wake \/ OpenWindow \/ CloseWindow \/ Reload

\* the loop never stops: the timer of sleep() fires and the next iteration
\* runs; the endpoint and the pages are taken to answer again and again
FairWatch ==
    /\ WF_vars(Wake)
    /\ WF_vars(PollInjects \/ PollFails)
    /\ SF_vars(PollInjects)

SpecWatch == InitWatch /\ [][NextWatch]_vars /\ FairWatch

\* C13: in watch mode a page target that is listed and lacks the style
\* element, because it is new or because it was reloaded under the same target
\* id, gets the style from some later poll iteration unless it stops being
\* listed.
C13_WatchStylesNewAndReloaded ==
    \A t \in TargetIds : (t \in pages /\ t \notin styled) ~> (t \notin pages \/ t \in styled)

====
